---- MODULE Spec2Model ----
(***************************************************************************)
(* Snapshot retention for ZFS (Anteru/server-scripts).                     *)
(*                                                                         *)
(* The model covers the retention engine of src/zfs/snapshot.py (filters,  *)
(* FilterSnapshots, the configuration loader), the storage driver          *)
(* primitives of src/zfs/__init__.py and src/zfs.py that the engine's      *)
(* results are handed to, and the two sub-commands of src/zfsu.py          *)
(* (snapshot, backup) that drive them.                                     *)
(*                                                                         *)
(* Time is POSIX seconds UTC, as the driver reads it from `zfs list -p`.   *)
(* A snapshot is the record [Path, Name, Timestamp]; equality is equality  *)
(* of the triple, as ZfsSnapshot.__eq__ defines it.  A snapshot name is a  *)
(* sequence of tokens standing for its characters, so that startswith is   *)
(* a real prefix test.                                                     *)
(***************************************************************************)
EXTENDS Integers, Sequences, FiniteSets, TLC

VARIABLES
    snapshots,      \* the list handed to FilterSnapshots / Apply
    currentTime,    \* the reference time of the call
    filters,        \* the policy: a list of <<filter, cutoff in days>>
    hashSeed,       \* the process's hash seed: fixes the iteration order of sets
    phase,          \* which call of the scenario has been made
    toKeep,         \* FilterSnapshots: the returned keep set
    toDelete,       \* FilterSnapshots: the returned delete list
    keepAgain,      \* FilterSnapshots run on the keep set: keep
    deleteAgain,    \* FilterSnapshots run on the keep set: delete
    filtersAlt,     \* the same policy entries in another list order
    keepAlt,        \* FilterSnapshots under filtersAlt: keep
    deleteAlt,      \* FilterSnapshots under filtersAlt: delete
    bands,          \* FilterSnapshots: the list handed to each filter, and the rest
    destroyed,      \* the part of the delete list destroyed before an interruption
    keepRest,       \* FilterSnapshots run on what an interrupted round left: keep
    deleteRest,     \* FilterSnapshots run on what an interrupted round left: delete
    applyFilter,    \* the filter whose Apply is called
    applied,        \* Apply(snapshots): the returned list
    snapshotsAlt,   \* the same snapshots in another list order
    appliedAlt,     \* Apply(snapshotsAlt): the returned list
    issued,         \* the destroy commands issued so far, in order
    section,        \* a configuration section: a list of <<key, value>>
    sectionAlt,     \* the same section with its keys in another order
    parsed,         \* __BuildFilters(section)
    parsedAlt,      \* __BuildFilters(sectionAlt)
    document,       \* a configuration document: a list of <<name, section>>
    configuration,  \* ParseConfiguration(document), or the default configuration
    args,           \* the parsed command line: sub-command, --dry-run, -c given
    datasets,       \* the storage namespace: dataset -> list of its snapshots
    datasetsAtStart,\* the storage namespace when the current run started
    log,            \* the storage commands issued so far, in order
    engineInputs,   \* the snapshot lists handed to FilterSnapshots so far
    poolIndex,      \* _snapshot: the pool the first loop is at
    fsIndex,        \* _snapshot / _backup: the filesystem the loop is at
    pending,        \* _snapshot: the obsolete snapshots still to destroy
    runs            \* the runs of the command line started so far

engineVars == <<currentTime, filters, hashSeed, toKeep, toDelete,
                keepAgain, deleteAgain, filtersAlt, keepAlt, deleteAlt,
                bands, destroyed, keepRest, deleteRest>>
applyVars == <<applyFilter, applied, snapshotsAlt, appliedAlt>>
destroyVars == <<issued>>
configVars == <<section, sectionAlt, parsed, parsedAlt>>

parseVars == <<document, configuration>>
cliVars == <<args, datasets, datasetsAtStart, log, engineInputs,
             poolIndex, fsIndex, pending, runs>>

vars == <<snapshots, phase, engineVars, applyVars, destroyVars, configVars,
          parseVars, cliVars>>

---------------------------------------------------------------------------
(* Bounds of the model *)

MaxLen == 3         \* longest snapshot list
MaxPolicyLen == 2   \* longest policy drawn for a call (the default policy is added)
MaxCalls == 2       \* destroy calls in one run
MaxKeys == 2        \* keys of a configuration section
MaxSections == 2    \* sections of a configuration document
MaxRuns == 2        \* runs of the command line in one behaviour

---------------------------------------------------------------------------
(* Sequences *)

Range(s) == {s[i] : i \in 1..Len(s)}

Reverse(s) == [i \in 1..Len(s) |-> s[Len(s) + 1 - i]]

IsInjective(s) == \A i, j \in 1..Len(s) : s[i] = s[j] => i = j

Permutations1(s) ==
    {p \in [1..Len(s) -> Range(s)] : \A x \in Range(s) : \E i \in 1..Len(s) : p[i] = x}

\* s with its first element moved to the end
Rotate(s) == [i \in 1..Len(s) |-> s[(i % Len(s)) + 1]]

\* sorted(seq, key=...): Python's sort is stable, so the result is determined:
\* element i goes after every element with a smaller key and after every
\* earlier element with the same key.  key is the sequence of the keys.
Sorted(seq, key) ==
    LET n == Len(seq)
        pos(i) == 1 + Cardinality({j \in 1..n :
                        key[j] < key[i] \/ (key[j] = key[i] /\ j < i)})
    IN [p \in 1..n |-> seq[CHOOSE i \in 1..n : pos(i) = p]]

\* A plausible slip: the sort without reverse=True.
SortedReverseForgotten(seq, key) ==
    LET n == Len(seq)
        pos(i) == 1 + Cardinality({j \in 1..n :
                        key[j] < key[i] \/ (key[j] = key[i] /\ j < i)})
    IN [p \in 1..n |-> seq[CHOOSE i \in 1..n : pos(i) = p]]

\* sorted(seq, key=..., reverse=True): descending, equal keys keep their order.
SortedReverse(seq, key) ==
    LET n == Len(seq)
        pos(i) == 1 + Cardinality({j \in 1..n :
                        key[j] > key[i] \/ (key[j] = key[i] /\ j < i)})
    IN [p \in 1..n |-> seq[CHOOSE i \in 1..n : pos(i) = p]]

---------------------------------------------------------------------------
(* Calendar: what datetime computes from POSIX seconds in UTC *)

SecondsPerDay == 86400
SecondsPerHour == 3600

DayNumber(ts) == ts \div SecondsPerDay          \* days since 1970-01-01
HourOf(ts) == (ts % SecondsPerDay) \div SecondsPerHour

\* The proleptic Gregorian date of a day number, computed in 400-year eras
\* that start on March 1st: z = days since 0000-03-01.
Era(z) == z \div 146097
DayOfEra(z) == z - Era(z) * 146097
YearOfEra(doe) ==
    (doe - doe \div 1460 + doe \div 36524 - doe \div 146096) \div 365
DayOfMarchYear(doe, yoe) == doe - (365 * yoe + yoe \div 4 - yoe \div 100)
MarchMonth(doy) == (5 * doy + 2) \div 153

\* <<year, month, day>> from the era, the year of the era, the day of the
\* March-based year and its month (0 = March)
CivilOf(era, yoe, doy, mp) ==
    << yoe + era * 400 + (IF mp >= 10 THEN 1 ELSE 0),
       IF mp < 10 THEN mp + 3 ELSE mp - 9,
       doy - (153 * mp + 2) \div 5 + 1 >>

CivilOfEraDay(era, doe, yoe) ==
    CivilOf(era, yoe, DayOfMarchYear(doe, yoe),
            MarchMonth(DayOfMarchYear(doe, yoe)))

\* datetime's (year, month, day) of a day number
CivilFromDays(days) ==
    CivilOfEraDay(Era(days + 719468), DayOfEra(days + 719468),
                  YearOfEra(DayOfEra(days + 719468)))

\* day number of the January 1st that lies in March-based year yoe of era
\* `era`: its 306th day
DaysOfJan1In(era, yoe) ==
    era * 146097 + yoe * 365 + yoe \div 4 - yoe \div 100 + 306 - 719468

\* day number of January 1st of year y
DaysOfJan1(y) == DaysOfJan1In((y - 1) \div 400, (y - 1) % 400)

\* datetime.weekday(): Monday = 0; 1970-01-01 was a Thursday
Weekday(days) == (days + 3) % 7

\* the Thursday of the Monday-based week of a day
ThursdayOf(days) == days - Weekday(days) + 3

\* the ISO year and week of a week, given its Thursday
IsoOfThursday(thursday, isoYear) ==
    <<isoYear, (thursday - DaysOfJan1(isoYear)) \div 7 + 1>>

\* date.isocalendar()[0:2]: the ISO year is the calendar year of the week's
\* Thursday, the ISO week counts the Thursdays of that year
IsoCalendar(ts) ==
    IsoOfThursday(ThursdayOf(DayNumber(ts)),
                  CivilFromDays(ThursdayOf(DayNumber(ts)))[1])

---------------------------------------------------------------------------
(* Filter library *)

Variants == {"Passthrough", "Hourly", "Daily", "Weekly", "Monthly", "Yearly"}
BucketVariants == Variants \ {"Passthrough"}

\* Filter.granularity and its overrides
granularity(f) ==
    CASE f = "Passthrough" -> 0
      [] f = "Hourly" -> 1
      [] f = "Daily" -> 24
      [] f = "Weekly" -> 168
      [] f = "Monthly" -> 720
      [] f = "Yearly" -> 8760

\* <Variant>Filter.GetBucket(timestamp)
GetBucket(f, ts) ==
    CASE f = "Hourly" -> CivilFromDays(DayNumber(ts)) \o <<HourOf(ts)>>
      [] f = "Daily" -> CivilFromDays(DayNumber(ts))
      [] f = "Weekly" -> IsoCalendar(ts)
      [] f = "Monthly" -> <<CivilFromDays(DayNumber(ts))[1],
                            CivilFromDays(DayNumber(ts))[2], 1>>
      [] f = "Yearly" -> <<CivilFromDays(DayNumber(ts))[1], 1, 1>>

TimestampsOf(seq) == [i \in 1..Len(seq) |-> seq[i].Timestamp]

\* A plausible slip: the oldest of the bucket, index [0] instead of [-1].
NewestOfBucketOldest(bucket) ==
    Sorted(bucket, TimestampsOf(bucket))[1]

\* sorted(bucket, key=attrgetter("Timestamp"))[-1]
NewestOfBucket(bucket) ==
    Sorted(bucket, TimestampsOf(bucket))[Len(bucket)]

\* A plausible slip: `return result` indented into the loop, so that only the
\* first bucket is answered.
GetNewestPerBucketFirstOnly(f, snaps) ==
    IF snaps = <<>> THEN <<>>
    ELSE <<NewestOfBucket(SelectSeq(snaps, LAMBDA s :
              GetBucket(f, s.Timestamp) = GetBucket(f, snaps[1].Timestamp)))>>

\* A plausible slip: the slice [:-1] instead of the index [-1], which returns
\* every snapshot of each bucket but its newest.
GetNewestPerBucketSlice(f, snaps) ==
    LET n == Len(snaps)
        key(i) == GetBucket(f, snaps[i].Timestamp)
        bucket(i) == SelectSeq(snaps, LAMBDA s : GetBucket(f, s.Timestamp) = key(i))
    IN SelectSeq(snaps, LAMBDA s : s # NewestOfBucket(bucket(
           CHOOSE i \in 1..n : snaps[i] = s)))

\* BucketFilter.Apply with GetNewestPerBucket: the buckets are a dict, filled
\* in list order, so the result lists one snapshot per bucket in the order
\* in which the buckets first appear.
GetNewestPerBucket(f, snaps) ==
    LET n == Len(snaps)
        key(i) == GetBucket(f, snaps[i].Timestamp)
        first == SelectSeq([i \in 1..n |-> i],
                           LAMBDA i : \A j \in 1..(i - 1) : key(j) # key(i))
        bucket(i) == SelectSeq(snaps, LAMBDA s : GetBucket(f, s.Timestamp) = key(i))
    IN [b \in 1..Len(first) |-> NewestOfBucket(bucket(first[b]))]

\* Filter.Apply / BucketFilter.Apply
Apply(f, snaps) ==
    IF f = "Passthrough" THEN snaps ELSE GetNewestPerBucket(f, snaps)

---------------------------------------------------------------------------
(* Policy engine *)

\* datetime.timedelta.max, in days: no difference of two datetimes exceeds it
TimedeltaMaxDays == 999999999

\* A plausible slip: `<` in place of `<=` in the partition condition.
WithinCutoffStrict(now, s, cutoff) ==
    IF cutoff = TimedeltaMaxDays THEN TRUE
    ELSE now - s.Timestamp < cutoff * SecondsPerDay

\* A plausible slip: the unlimited cutoff taken as no time at all.
WithinCutoffUnlimitedAsZero(now, s, cutoff) ==
    IF cutoff = TimedeltaMaxDays THEN now - s.Timestamp <= 0
    ELSE now - s.Timestamp <= cutoff * SecondsPerDay

\* (currentTime - snapshot.Timestamp) <= cutoff, cutoff = timedelta(days)
WithinCutoff(now, s, cutoff) ==
    IF cutoff = TimedeltaMaxDays THEN TRUE
    ELSE now - s.Timestamp <= cutoff * SecondsPerDay

ReservedPrefix == <<"shadow_copy">>

Snap(path, name, ts) == [Path |-> path, Name |-> name, Timestamp |-> ts]

\* The snapshots the inputs are drawn from.  Two share a timestamp; three a
\* day; four an ISO week (2000-W09) that spans two months; two a month
\* (February); the last two an ISO week (1999-W52) that spans two years.
AllSnapshots ==
    << Snap("tank", <<"shadow_copy", "-2000.03.03-10.15.00">>, 952078500),
       Snap("tank", <<"shadow_copy", "_manual">>, 952078500),
       Snap("tank", <<"shadow_copy", "-2000.03.03-11.45.00">>, 952083900),
       Snap("tank", <<"shadow_copy", "-2000.02.29-12.00.00">>, 951825600),
       Snap("tank", <<"shadow_copy", "-2000.02.01-12.00.00">>, 949406400),
       Snap("tank", <<"shadow_copy", "-2000.01.02-12.00.00">>, 946814400),
       Snap("tank", <<"shadow_copy", "-1999.12.31-12.00.00">>, 946641600) >>

\* zpool list -H -o name, and zfs list -H -t filesystem -o name
Pools == <<"tank", "dozer">>
Filesystems == <<"tank", "tank/vm", "dozer">>

\* the filesystems a recursive `zfs snapshot -r path@name` reaches
Descendants(path) ==
    IF path = "tank" THEN {"tank", "tank/vm"} ELSE {path}

\* The wall clock of the command-line runs: run 1 starts on 2000-03-13 at
\* 12:00:00 UTC, each later run an hour after the one before (the same day).
RunStart == 952948800
Clock(run) == RunStart + (run - 1) * SecondsPerHour

\* dt.strftime('shadow_copy-%Y.%m.%d-%H.%M.%S'): one name per second
SnapshotName(ts) == <<"shadow_copy", "-", ToString(ts)>>

\* dt.strftime(f'{prefix}%Y-%m-%d'): one name per day
BackupPrefix == <<"backup_">>
BackupName(ts) ==
    BackupPrefix \o <<ToString(CivilFromDays(DayNumber(ts))[1]), "-",
                      ToString(CivilFromDays(DayNumber(ts))[2]), "-",
                      ToString(CivilFromDays(DayNumber(ts))[3])>>

\* target_path = args.TARGET_POOL + '/' + fs.replace('/', '_')
TargetPool == "backup"
TargetPath(fs) ==
    CASE fs = "tank" -> "backup/tank"
      [] fs = "tank/vm" -> "backup/tank_vm"
      [] fs = "dozer" -> "backup/dozer"

\* Snapshots found on a filesystem before a run: two taken by earlier rounds
\* on 2000-03-03 (the same day), and one an administrator took by hand.
Earlier(path) ==
    << Snap(path, <<"shadow_copy", "-2000.03.03-10.15.00">>, 952078500),
       Snap(path, <<"shadow_copy", "-2000.03.03-11.45.00">>, 952083900) >>
Manual(path) == Snap(path, <<"manual">>, 952078500)

\* the snapshots the rounds of the command line can hand to the engine
RoundSnapshots ==
    Earlier("tank/vm") \o Earlier("dozer")
    \o [i \in 1..(MaxRuns * Len(Filesystems)) |->
          Snap(Filesystems[((i - 1) % Len(Filesystems)) + 1],
               SnapshotName(Clock(((i - 1) \div Len(Filesystems)) + 1)),
               Clock(((i - 1) \div Len(Filesystems)) + 1))]
    \o <<Manual("tank"), Manual("tank/vm"), Manual("dozer")>>

\* The snapshots of test_FilterSnapshotsWeeklyMonthly: one a week at 12:00
\* from 2000-01-01 to 2000-01-29 and from 2000-02-01 to 2000-02-22, then
\* 2000-03-01, 03-08 and 03-15, oldest first; and its currentTime,
\* 2000-04-01 00:00.
ScenarioSnapshots ==
    [i \in 1..12 |->
        Snap("tank", <<"shadow_copy">>,
             << 946728000, 947332800, 947937600, 948542400, 949147200,
                949406400, 950011200, 950616000, 951220800,
                951912000, 952516800, 953121600 >>[i])]
ScenarioNow == 954547200

\* Iteration order of a Python set of snapshots: fixed by the members' hashes
\* within one process (hashSeed), unrelated to the order of any list.
SetIter(S) ==
    SelectSeq(IF hashSeed = 0
              THEN AllSnapshots \o RoundSnapshots \o ScenarioSnapshots
              ELSE Reverse(AllSnapshots \o RoundSnapshots \o ScenarioSnapshots),
              LAMBDA s : s \in S)

\* A plausible slip: the policy is applied in the order it is listed (as the
\* engine of src/zfs.py does), without the sort.
SortFiltersListed(policy) == policy

\* filters = sorted(filters, key=lambda x: x[0].granularity)
SortFilters(policy) ==
    Sorted(policy, [i \in 1..Len(policy) |-> granularity(policy[i][1])])

\* A plausible slip: the two lists are returned the other way round.
PartitionSwapped(now, snaps, cutoff) ==
    <<SelectSeq(snaps, LAMBDA s : ~WithinCutoff(now, s, cutoff)),
      SelectSeq(snaps, LAMBDA s : WithinCutoff(now, s, cutoff))>>

\* Partition(snapshots, condition): <<trueList, falseList>>, order preserved
Partition(now, snaps, cutoff) ==
    <<SelectSeq(snaps, LAMBDA s : WithinCutoff(now, s, cutoff)),
      SelectSeq(snaps, LAMBDA s : ~WithinCutoff(now, s, cutoff))>>

\* the loop over the sorted filters: [keep, remaining] after it.  Once
\* nothing remains the loop breaks, and the state stays as it is.
FilterLoop(fs, now, snaps) ==
    LET after[i \in 0..Len(fs)] ==
            IF i = 0 THEN [keep |-> {}, remaining |-> snaps]
            ELSE IF after[i - 1].remaining = <<>> THEN after[i - 1]
            ELSE LET part == Partition(now, after[i - 1].remaining, fs[i][2])
                 IN [keep |-> after[i - 1].keep \cup Range(Apply(fs[i][1], part[1])),
                     remaining |-> part[2]]
    IN after[Len(fs)]

\* the same loop, seen from the filters: the list each filter is handed (none
\* once the loop has broken), and the list left after the loop
FilterBands(fs, now, snaps) ==
    LET left[i \in 0..Len(fs)] ==
            IF i = 0 THEN snaps
            ELSE IF left[i - 1] = <<>> THEN <<>>
            ELSE Partition(now, left[i - 1], fs[i][2])[2]
    IN [order |-> fs,
        handed |-> [i \in 1..Len(fs) |->
                       IF left[i - 1] = <<>> THEN <<>>
                       ELSE Partition(now, left[i - 1], fs[i][2])[1]],
        rest |-> left[Len(fs)]]

\* A plausible slip: the snapshots left after the loop are not added to the
\* keep set (what earlier versions of the engine did).
FilterSnapshotsDropRest(snaps, now, policy) ==
    LET loop == FilterLoop(SortFilters(policy), now, snaps)
        keep == loop.keep
        del == SetIter(Range(snaps) \ keep)
    IN [keep |-> keep, delete |-> SortedReverse(del, TimestampsOf(del))]

\* A plausible slip: toDelete is computed before the rest is added to toKeep.
FilterSnapshotsDeleteEarly(snaps, now, policy) ==
    LET loop == FilterLoop(SortFilters(policy), now, snaps)
        keep == loop.keep \cup Range(loop.remaining)
        del == SetIter(Range(snaps) \ loop.keep)
    IN [keep |-> keep, delete |-> SortedReverse(del, TimestampsOf(del))]

\* A plausible slip: reverse=True is missing from the final sort.
FilterSnapshotsAscending(snaps, now, policy) ==
    LET loop == FilterLoop(SortFilters(policy), now, snaps)
        keep == loop.keep \cup Range(loop.remaining)
        del == SetIter(Range(snaps) \ keep)
    IN [keep |-> keep, delete |-> Sorted(del, TimestampsOf(del))]

\* A plausible slip: the two results returned the other way round.
FilterSnapshotsSwapped(snaps, now, policy) ==
    LET loop == FilterLoop(SortFilters(policy), now, snaps)
        keep == loop.keep \cup Range(loop.remaining)
        del == SetIter(Range(snaps) \ keep)
        kept == SetIter(keep)
    IN [keep |-> Range(del), delete |-> SortedReverse(kept, TimestampsOf(kept))]

\* FilterSnapshots(snapshots, currentTime, filters): [keep, delete].
\* toDelete is a set; sorted() reads it in the set's iteration order.
FilterSnapshots(snaps, now, policy) ==
    LET loop == FilterLoop(SortFilters(policy), now, snaps)
        keep == loop.keep \cup Range(loop.remaining)
        del == SetIter(Range(snaps) \ keep)
    IN [keep |-> keep, delete |-> SortedReverse(del, TimestampsOf(del))]

\* __DEFAULT_FILTERS
DEFAULT_FILTERS ==
    << <<"Passthrough", 2>>, <<"Hourly", 7>>, <<"Daily", 30>>,
       <<"Weekly", 90>>, <<"Monthly", 365>>, <<"Yearly", TimedeltaMaxDays>> >>

---------------------------------------------------------------------------
(* Storage driver: the destroy primitive *)

\* name.startswith(prefix)
StartsWith(name, prefix) ==
    Len(name) >= Len(prefix) /\ SubSeq(name, 1, Len(prefix)) = prefix

\* One issued command: `zfs destroy [-r] path@name`, printed (dry run) or
\* executed, with the record the caller asked to destroy.
Command(driver, how, path, name, recursive, recordPath, recordName) ==
    [driver |-> driver, how |-> how, path |-> path, name |-> name,
     recursive |-> recursive, recordPath |-> recordPath, recordName |-> recordName]

\* zfs.DestroySnapshot(path, name, recursive, dryRun) of src/zfs/__init__.py:
\* the commands it issues.  The record asked for is path@name itself.
DestroySnapshot(path, name, recursive, dryRun) ==
    <<Command("zfs/__init__.py", IF dryRun THEN "printed" ELSE "executed",
              path, name, recursive, path, name)>>

\* strftime('shadow_copy-%Y.%m.%d-%H.%M.%S'): one name per second
LegacySnapshotName(ts) == <<"shadow_copy", "-", ToString(ts)>>

\* DestroySnapshot(path, snapshot, recursive, dryRun) of src/zfs.py: the
\* commands it issues.
LegacyDestroySnapshot(path, snapshot, recursive, dryRun) ==
    IF snapshot.Name # <<"shadow_copy">> THEN <<>>
    ELSE IF snapshot.Path # path THEN <<>>
    ELSE <<Command("zfs.py", IF dryRun THEN "printed" ELSE "executed",
                   path, LegacySnapshotName(snapshot.Timestamp), recursive,
                   snapshot.Path, snapshot.Name)>>

---------------------------------------------------------------------------
(* Storage driver: creation, listing, and the storage namespace *)

\* The storage namespace maps each dataset to the list of its snapshots, in
\* the order `zfs list` prints them (creation order).

\* A plausible slip: the command is executed whether or not dryRun is set.
CreateSnapshotAlwaysRuns(path, name, recursive, dryRun) ==
    <<Command("zfs/__init__.py", "executed", path, name, recursive, path, name)>>

\* zfs.CreateSnapshot(path, name, recursive, dryRun): the commands it issues
CreateSnapshot(path, name, recursive, dryRun) ==
    <<Command("zfs/__init__.py", IF dryRun THEN "printed" ELSE "executed",
              path, name, recursive, path, name)>>

\* the datasets `zfs snapshot|destroy [-r] path@name` acts on
Reach(path, recursive) == IF recursive THEN Descendants(path) ELSE {path}

\* whether `zfs snapshot` must fail: path@name exists on a dataset it reaches
NameTaken(ds, path, name, recursive) ==
    \E f \in Reach(path, recursive) \cap DOMAIN ds :
        \E i \in 1..Len(ds[f]) : ds[f][i].Name = name

\* the namespace after a successful `zfs snapshot [-r] path@name` at time ts
Created(ds, path, name, recursive, ts) ==
    [f \in DOMAIN ds |->
        IF f \in Reach(path, recursive) THEN Append(ds[f], Snap(f, name, ts))
        ELSE ds[f]]

\* the namespace after a successful `zfs destroy [-r] path@name`
Destroyed(ds, path, name, recursive) ==
    [f \in DOMAIN ds |->
        IF f \in Reach(path, recursive)
        THEN SelectSeq(ds[f], LAMBDA s : s.Name # name)
        ELSE ds[f]]

\* the namespace after a successful `zfs send fs@name | zfs recv target`:
\* the target holds a snapshot of that name, with the source's creation time
Received(ds, fs, name, target) ==
    [f \in DOMAIN ds |->
        IF f = target /\ ~\E i \in 1..Len(ds[f]) : ds[f][i].Name = name
        THEN ds[f] \o [i \in 1..Len(SelectSeq(ds[fs], LAMBDA s : s.Name = name)) |->
                          Snap(target, name,
                               SelectSeq(ds[fs], LAMBDA s : s.Name = name)[i].Timestamp)]
        ELSE ds[f]]

\* A plausible slip: the listing is returned without the prefix test.
GetSnapshotsUnfiltered(ds, path, prefix) ==
    IF path \notin DOMAIN ds THEN <<>> ELSE ds[path]

\* zfs.GetSnapshots(path, prefix): the snapshots of path whose name starts
\* with prefix; [] when the listing fails
GetSnapshots(ds, path, prefix) ==
    IF path \notin DOMAIN ds THEN <<>>
    ELSE SelectSeq(ds[path], LAMBDA s : StartsWith(s.Name, prefix))

\* A plausible slip: the lookup never finds the snapshot.
GetSnapshotNone(ds, path, name) == <<>>

\* zfs.GetSnapshot(path, snapshot_name): <<the snapshot>>, or <<>> for None
GetSnapshot(ds, path, name) ==
    IF path \notin DOMAIN ds THEN <<>>
    ELSE SelectSeq(ds[path], LAMBDA s : s.Name = name)

---------------------------------------------------------------------------
(* Configuration loader *)

IntValue(n) == [type |-> "int", int |-> n, str |-> ""]
StrValue(s) == [type |-> "str", int |-> 0, str |-> s]

\* the `filters` dict of __BuildFilters
FilterOfKey(key) ==
    CASE key = "all" -> "Passthrough"
      [] key = "hourly" -> "Hourly"
      [] key = "daily" -> "Daily"
      [] key = "weekly" -> "Weekly"
      [] key = "monthly" -> "Monthly"
      [] key = "yearly" -> "Yearly"

FilterKeys == {"all", "hourly", "daily", "weekly", "monthly", "yearly"}

\* cutoff == 0 or cutoff == "disabled"
IsDisabled(value) ==
    \/ value.type = "int" /\ value.int = 0
    \/ value.type = "str" /\ value.str = "disabled"

\* A plausible slip: `break` instead of `continue` at a disabled key, which
\* drops every entry listed after it.
RECURSIVE BuildFiltersFromBreak(_, _)
BuildFiltersFromBreak(s, i) ==
    IF i > Len(s) THEN [error |-> FALSE, filters |-> <<>>]
    ELSE LET key == s[i][1]
             value == s[i][2]
             tail == BuildFiltersFromBreak(s, i + 1)
         IN IF key \notin FilterKeys THEN tail
            ELSE IF IsDisabled(value) THEN [error |-> FALSE, filters |-> <<>>]
            ELSE IF value.type = "str" /\ value.str # "unlimited"
                 THEN [error |-> TRUE, filters |-> <<>>]
            ELSE IF tail.error THEN tail
            ELSE [error |-> FALSE,
                  filters |-> <<<<FilterOfKey(key),
                                  IF value.type = "str" THEN TimedeltaMaxDays
                                  ELSE value.int>>>> \o tail.filters]

\* the loop of __BuildFilters over s.items(), from item i on: the entries
\* appended, or an error when datetime.timedelta(cutoff) raises (a string
\* that is neither "disabled" nor "unlimited")
RECURSIVE BuildFiltersFrom(_, _)
BuildFiltersFrom(s, i) ==
    IF i > Len(s) THEN [error |-> FALSE, filters |-> <<>>]
    ELSE LET key == s[i][1]
             value == s[i][2]
             tail == BuildFiltersFrom(s, i + 1)
         IN IF key \notin FilterKeys THEN tail
            ELSE IF IsDisabled(value) THEN tail
            ELSE IF value.type = "str" /\ value.str # "unlimited"
                 THEN [error |-> TRUE, filters |-> <<>>]
            ELSE IF tail.error THEN tail
            ELSE [error |-> FALSE,
                  filters |-> <<<<FilterOfKey(key),
                                  IF value.type = "str" THEN TimedeltaMaxDays
                                  ELSE value.int>>>> \o tail.filters]

\* __BuildFilters(s)
BuildFilters(s) == BuildFiltersFrom(s, 1)

BoolValue(b) == [type |-> "bool", int |-> IF b THEN 1 ELSE 0, str |-> ""]

\* result[section].get(key, default), for the boolean keys of a section
GetFlag(s, key, default) ==
    IF \E i \in 1..Len(s) : s[i][1] = key
    THEN s[CHOOSE i \in 1..Len(s) : s[i][1] = key][2].int = 1
    ELSE default

\* the mapping without sections
EmptyConfiguration == [n \in {} |-> 0]

\* dict.update: the entries of b replace or extend those of a
Update(a, b) ==
    [n \in DOMAIN a \cup DOMAIN b |-> IF n \in DOMAIN b THEN b[n] ELSE a[n]]

\* GetDefaultConfiguration()
GetDefaultConfiguration ==
    [n \in {"_default"} |->
        [filters |-> DEFAULT_FILTERS, recursive |-> TRUE, ignore |-> FALSE]]

\* the names of the sections of a document (a list of <<name, section>>)
SectionNames(doc) == {doc[i][1] : i \in 1..Len(doc)}

\* the loop of ParseConfiguration: each section replaced by its
\* {filters, recursive, ignore}
SectionConfigs(doc) ==
    [n \in SectionNames(doc) |->
        LET s == doc[CHOOSE i \in 1..Len(doc) : doc[i][1] = n][2]
        IN [filters |-> BuildFilters(s).filters,
            recursive |-> GetFlag(s, "recursive", TRUE),
            ignore |-> GetFlag(s, "ignore", FALSE)]]

\* A plausible slip: the default configuration is returned in place of the
\* parsed one when the document has no `_default` section.
ParseConfigurationReplace(doc) ==
    IF \E i \in 1..Len(doc) : BuildFilters(doc[i][2]).error
    THEN [error |-> TRUE, config |-> EmptyConfiguration]
    ELSE [error |-> FALSE,
          config |-> IF "_default" \in SectionNames(doc) THEN SectionConfigs(doc)
                     ELSE GetDefaultConfiguration]

\* ParseConfiguration(configFile): the mapping returned, or an error when
\* __BuildFilters raises on a section
ParseConfiguration(doc) ==
    IF \E i \in 1..Len(doc) : BuildFilters(doc[i][2]).error
    THEN [error |-> TRUE, config |-> EmptyConfiguration]
    ELSE [error |-> FALSE,
          config |-> IF "_default" \in SectionNames(doc) THEN SectionConfigs(doc)
                     ELSE Update(SectionConfigs(doc), GetDefaultConfiguration)]

---------------------------------------------------------------------------
(* Inputs of the checked calls *)

\* the snapshots of the engine's lists: the first five of AllSnapshots
EngineSnapshots == {AllSnapshots[i] : i \in 1..5}

ListsOver(universe) ==
    {l \in UNION {[1..n -> universe] : n \in 0..MaxLen} : IsInjective(l)}

\* 2000-03-13 12:00 (13 days after the snapshot of 02-29, to the second) and
\* 2000-03-14 12:00
Nows == {952948800, 953035200}

CutoffChoices == {13, TimedeltaMaxDays}

PolicyVariants == {"Passthrough", "Hourly", "Weekly", "Monthly"}

\* The policies drawn: at most one entry per filter variant, listed coarsest
\* first (the order the engine's sort has most to change), and the default.
\* CallFilterSnapshotsReordered runs the engine on the other list orders.
Policies ==
    {p \in UNION {[1..n -> PolicyVariants \X CutoffChoices] : n \in 0..MaxPolicyLen} :
        \A i, j \in 1..Len(p) : i < j => granularity(p[i][1]) > granularity(p[j][1])}
    \cup {DEFAULT_FILTERS}

\* the other list orders tried for a policy: all of them for a drawn policy,
\* two of the 719 for the default policy
OtherOrders(p) ==
    IF Len(p) <= MaxPolicyLen THEN Permutations1(p) \ {p}
    ELSE {Reverse(p), Rotate(p)}

HashSeeds == {0, 1}

EngineIdle ==
    /\ currentTime = 0
    /\ filters = <<>>
    /\ hashSeed = 0
    /\ toKeep = {}
    /\ toDelete = <<>>
    /\ keepAgain = {}
    /\ deleteAgain = <<>>
    /\ filtersAlt = <<>>
    /\ keepAlt = {}
    /\ deleteAlt = <<>>
    /\ bands = [order |-> <<>>, handed |-> <<>>, rest |-> <<>>]
    /\ destroyed = {}
    /\ keepRest = {}
    /\ deleteRest = <<>>

ApplyIdle ==
    /\ applyFilter = "Passthrough"
    /\ applied = <<>>
    /\ snapshotsAlt = <<>>
    /\ appliedAlt = <<>>

DestroyIdle == issued = <<>>

ConfigIdle ==
    /\ section = <<>>
    /\ sectionAlt = <<>>
    /\ parsed = [error |-> FALSE, filters |-> <<>>]
    /\ parsedAlt = [error |-> FALSE, filters |-> <<>>]

ParseIdle ==
    /\ document = <<>>
    /\ configuration = [error |-> FALSE, config |-> EmptyConfiguration]

NoDatasets == [f \in {} |-> <<>>]

CliIdle ==
    /\ args = [command |-> "none", dryRun |-> FALSE, config |-> FALSE]
    /\ datasets = NoDatasets
    /\ datasetsAtStart = NoDatasets
    /\ log = <<>>
    /\ engineInputs = <<>>
    /\ poolIndex = 0
    /\ fsIndex = 0
    /\ pending = <<>>
    /\ runs = 0

---------------------------------------------------------------------------
(* Specification Spec: calls of the policy engine *)

Init ==
    /\ snapshots \in ListsOver(EngineSnapshots)
    /\ currentTime \in Nows
    /\ filters \in Policies
    /\ hashSeed \in HashSeeds
    /\ phase = "input"
    /\ toKeep = {}
    /\ toDelete = <<>>
    /\ keepAgain = {}
    /\ deleteAgain = <<>>
    /\ filtersAlt = <<>>
    /\ keepAlt = {}
    /\ deleteAlt = <<>>
    /\ bands = [order |-> <<>>, handed |-> <<>>, rest |-> <<>>]
    /\ destroyed = {}
    /\ keepRest = {}
    /\ deleteRest = <<>>
    /\ ApplyIdle
    /\ DestroyIdle
    /\ ConfigIdle
    /\ ParseIdle
    /\ CliIdle

\* keep, delete = FilterSnapshots(snapshots, currentTime, filters)
CallFilterSnapshots ==
    /\ phase = "input"
    /\ LET r == FilterSnapshots(snapshots, currentTime, filters)
       IN /\ toKeep' = r.keep
          /\ toDelete' = r.delete
    /\ bands' = FilterBands(SortFilters(filters), currentTime, snapshots)
    /\ phase' = "filtered"
    /\ UNCHANGED <<snapshots, currentTime, filters, hashSeed,
                   keepAgain, deleteAgain, filtersAlt, keepAlt, deleteAlt,
                   destroyed, keepRest, deleteRest,
                   applyVars, destroyVars, configVars, parseVars, cliVars>>

\* FilterSnapshots(keep, currentTime, filters): the keep set is read in its
\* iteration order
CallFilterSnapshotsOnKeep ==
    /\ phase = "filtered"
    /\ LET r == FilterSnapshots(SetIter(toKeep), currentTime, filters)
       IN /\ keepAgain' = r.keep
          /\ deleteAgain' = r.delete
    /\ phase' = "again"
    /\ UNCHANGED <<snapshots, currentTime, filters, hashSeed, toKeep, toDelete,
                   filtersAlt, keepAlt, deleteAlt,
                   bands, destroyed, keepRest, deleteRest,
                   applyVars, destroyVars, configVars, parseVars, cliVars>>

\* FilterSnapshots(snapshots, currentTime, p) for a policy p that lists the
\* entries of filters in another order
CallFilterSnapshotsReordered ==
    /\ phase = "filtered"
    /\ \E p \in OtherOrders(filters) :
         /\ filtersAlt' = p
         /\ LET r == FilterSnapshots(snapshots, currentTime, p)
            IN /\ keepAlt' = r.keep
               /\ deleteAlt' = r.delete
    /\ phase' = "reordered"
    /\ UNCHANGED <<snapshots, currentTime, filters, hashSeed, toKeep, toDelete,
                   keepAgain, deleteAgain,
                   bands, destroyed, keepRest, deleteRest,
                   applyVars, destroyVars, configVars, parseVars, cliVars>>

Next ==
    \/ CallFilterSnapshots
    \/ CallFilterSnapshotsOnKeep
    \/ CallFilterSnapshotsReordered

Spec == Init /\ [][Next]_vars

---------------------------------------------------------------------------
(* Specification SpecPartial: a retention round that is interrupted, and the
   engine in the next run *)

\* what a round leaves when it is interrupted after destroying `destroyed`,
\* and FilterSnapshots on it
LeftAfterPartial == SelectSeq(snapshots, LAMBDA s : s \notin destroyed)
FilterSnapshotsOfLeft == FilterSnapshots(LeftAfterPartial, currentTime, filters)

\* The round is interrupted after some of the delete list was destroyed; the
\* next run is a new process, with a hash seed of its own.
InterruptRound ==
    /\ phase = "filtered"
    /\ destroyed' \in SUBSET Range(toDelete)
    /\ hashSeed' \in HashSeeds
    /\ phase' = "interrupted"
    /\ UNCHANGED <<snapshots, currentTime, filters, toKeep, toDelete,
                   keepAgain, deleteAgain, filtersAlt, keepAlt, deleteAlt, bands,
                   keepRest, deleteRest,
                   applyVars, destroyVars, configVars, parseVars, cliVars>>

\* The next run calls FilterSnapshots on the snapshots that are left.
CallFilterSnapshotsAfterPartial ==
    /\ phase = "interrupted"
    /\ keepRest' = FilterSnapshotsOfLeft.keep
    /\ deleteRest' = FilterSnapshotsOfLeft.delete
    /\ phase' = "partial"
    /\ UNCHANGED <<snapshots, currentTime, filters, hashSeed, toKeep, toDelete,
                   keepAgain, deleteAgain, filtersAlt, keepAlt, deleteAlt, bands,
                   destroyed,
                   applyVars, destroyVars, configVars, parseVars, cliVars>>

\* the listings drawn: the snapshots in the order of the listing, some left out
PartialLists ==
    {l \in {SelectSeq(AllSnapshots, LAMBDA s : s \in S) : S \in SUBSET EngineSnapshots} :
        Len(l) <= MaxLen + 1}

InitPartial ==
    /\ snapshots \in PartialLists
    /\ currentTime \in Nows
    /\ filters \in Policies
    /\ hashSeed \in HashSeeds
    /\ phase = "input"
    /\ toKeep = {}
    /\ toDelete = <<>>
    /\ keepAgain = {}
    /\ deleteAgain = <<>>
    /\ filtersAlt = <<>>
    /\ keepAlt = {}
    /\ deleteAlt = <<>>
    /\ bands = [order |-> <<>>, handed |-> <<>>, rest |-> <<>>]
    /\ destroyed = {}
    /\ keepRest = {}
    /\ deleteRest = <<>>
    /\ ApplyIdle
    /\ DestroyIdle
    /\ ConfigIdle
    /\ ParseIdle
    /\ CliIdle

NextPartial ==
    \/ CallFilterSnapshots
    \/ InterruptRound
    \/ CallFilterSnapshotsAfterPartial

SpecPartial == InitPartial /\ [][NextPartial]_vars

---------------------------------------------------------------------------
(* Specification SpecScenario: the engine on the lists of the weekly and
   monthly scenario *)

\* the scenario's list and every list that keeps some of its snapshots
ScenarioLists ==
    {SelectSeq(ScenarioSnapshots, LAMBDA s : s \in S) :
        S \in SUBSET Range(ScenarioSnapshots)}

ScenarioPolicy == << <<"Weekly", 30>>, <<"Monthly", TimedeltaMaxDays>> >>

InitScenario ==
    /\ snapshots \in ScenarioLists
    /\ currentTime = ScenarioNow
    /\ filters = ScenarioPolicy
    /\ hashSeed \in HashSeeds
    /\ phase = "input"
    /\ toKeep = {}
    /\ toDelete = <<>>
    /\ keepAgain = {}
    /\ deleteAgain = <<>>
    /\ filtersAlt = <<>>
    /\ keepAlt = {}
    /\ deleteAlt = <<>>
    /\ bands = [order |-> <<>>, handed |-> <<>>, rest |-> <<>>]
    /\ destroyed = {}
    /\ keepRest = {}
    /\ deleteRest = <<>>
    /\ ApplyIdle
    /\ DestroyIdle
    /\ ConfigIdle
    /\ ParseIdle
    /\ CliIdle

NextScenario == CallFilterSnapshots

SpecScenario == InitScenario /\ [][NextScenario]_vars

---------------------------------------------------------------------------
(* Specification SpecApply: calls of one filter's Apply *)

InitApply ==
    /\ snapshots \in ListsOver(Range(AllSnapshots))
    /\ applyFilter \in Variants
    /\ phase = "input"
    /\ applied = <<>>
    /\ snapshotsAlt = <<>>
    /\ appliedAlt = <<>>
    /\ EngineIdle
    /\ DestroyIdle
    /\ ConfigIdle
    /\ ParseIdle
    /\ CliIdle

\* applyFilter.Apply(snapshots)
CallApply ==
    /\ phase = "input"
    /\ applied' = Apply(applyFilter, snapshots)
    /\ phase' = "applied"
    /\ UNCHANGED <<snapshots, applyFilter, snapshotsAlt, appliedAlt,
                   engineVars, destroyVars, configVars, parseVars, cliVars>>

\* applyFilter.Apply(p) for a list p of the same snapshots in another order
CallApplyPermuted ==
    /\ phase = "applied"
    /\ \E p \in Permutations1(snapshots) \ {snapshots} :
         /\ snapshotsAlt' = p
         /\ appliedAlt' = Apply(applyFilter, p)
    /\ phase' = "permuted"
    /\ UNCHANGED <<snapshots, applyFilter, applied,
                   engineVars, destroyVars, configVars, parseVars, cliVars>>

NextApply ==
    \/ CallApply
    \/ CallApplyPermuted

SpecApply == InitApply /\ [][NextApply]_vars

---------------------------------------------------------------------------
(* Specification SpecDestroy: calls of the destroy primitive *)

DestroyPaths == {"tank", "tank/vm"}

DestroyNames ==
    {<<"shadow_copy", "-2000.03.03-10.15.00">>, <<"manual">>,
     <<"backup_", "2000-03-03">>}

\* records as GetSnapshots of src/zfs.py builds them (the name is the bare
\* prefix), and one carrying a foreign name
LegacyRecords ==
    {Snap(path, name, 952078500) :
        path \in DestroyPaths, name \in {<<"shadow_copy">>, <<"manual">>}}

InitDestroy ==
    /\ snapshots = <<>>
    /\ phase = "driver"
    /\ issued = <<>>
    /\ EngineIdle
    /\ ApplyIdle
    /\ ConfigIdle
    /\ ParseIdle
    /\ CliIdle

\* zfs.DestroySnapshot(path, name, recursive=..., dryRun=...)
CallDestroySnapshot ==
    /\ Len(issued) < MaxCalls
    /\ \E path \in DestroyPaths, name \in DestroyNames, recursive, dryRun \in BOOLEAN :
         issued' = issued \o DestroySnapshot(path, name, recursive, dryRun)
    /\ UNCHANGED <<snapshots, phase, engineVars, applyVars, configVars, parseVars, cliVars>>

\* DestroySnapshot(path, snapshot, recursive=..., dryRun=...) of src/zfs.py
CallLegacyDestroySnapshot ==
    /\ Len(issued) < MaxCalls
    /\ \E path \in DestroyPaths, snapshot \in LegacyRecords, recursive, dryRun \in BOOLEAN :
         issued' = issued \o LegacyDestroySnapshot(path, snapshot, recursive, dryRun)
    /\ UNCHANGED <<snapshots, phase, engineVars, applyVars, configVars, parseVars, cliVars>>

NextDestroy ==
    \/ CallDestroySnapshot
    \/ CallLegacyDestroySnapshot

SpecDestroy == InitDestroy /\ [][NextDestroy]_vars

---------------------------------------------------------------------------
(* Specification SpecConfig: the loader on one section *)

ConfigKeys == FilterKeys \cup {"frequency"}

ConfigValues ==
    {IntValue(0), IntValue(2), IntValue(5),
     StrValue("unlimited"), StrValue("disabled"), StrValue("0")}

\* a section: its keys are distinct, in the order of the document
Sections ==
    {s \in UNION {[1..n -> ConfigKeys \X ConfigValues] : n \in 0..MaxKeys} :
        \A i, j \in 1..Len(s) : s[i][1] = s[j][1] => i = j}

InitConfig ==
    /\ snapshots = <<>>
    /\ phase = "document"
    /\ section \in Sections
    /\ sectionAlt = <<>>
    /\ parsed = [error |-> FALSE, filters |-> <<>>]
    /\ parsedAlt = [error |-> FALSE, filters |-> <<>>]
    /\ EngineIdle
    /\ ApplyIdle
    /\ DestroyIdle
    /\ ParseIdle
    /\ CliIdle

\* __BuildFilters(result[section]) in ParseConfiguration
CallBuildFilters ==
    /\ phase = "document"
    /\ parsed' = BuildFilters(section)
    /\ phase' = "parsed"
    /\ UNCHANGED <<snapshots, section, sectionAlt, parsedAlt,
                   engineVars, applyVars, destroyVars, parseVars, cliVars>>

\* __BuildFilters on the same section with its keys in another order
CallBuildFiltersPermuted ==
    /\ phase = "parsed"
    /\ \E s \in Permutations1(section) \ {section} :
         /\ sectionAlt' = s
         /\ parsedAlt' = BuildFilters(s)
    /\ phase' = "permuted"
    /\ UNCHANGED <<snapshots, section, parsed,
                   engineVars, applyVars, destroyVars, parseVars, cliVars>>

NextConfig ==
    \/ CallBuildFilters
    \/ CallBuildFiltersPermuted

SpecConfig == InitConfig /\ [][NextConfig]_vars

---------------------------------------------------------------------------
(* Specification SpecParse: the loader on a whole document *)

SectionNameChoices == {"_default", "tank", "tank/vm"}

\* sections of the documents of the command-line runs: no key at all; a
\* daily band with ignore set; a daily band with recursive unset
RoundSections ==
    { <<>>,
      << <<"ignore", BoolValue(TRUE)>>, <<"daily", IntValue(30)>> >>,
      << <<"daily", IntValue(30)>>, <<"recursive", BoolValue(FALSE)>> >> }

\* and, for the loader alone: disabled and unlimited bands, and a value on
\* which datetime.timedelta raises
DocumentSections ==
    RoundSections
    \cup { << <<"all", IntValue(0)>>, <<"yearly", StrValue("unlimited")>> >>,
           << <<"hourly", StrValue("0")>> >> }

\* documents with a band value that is not a non-negative integer,
\* "unlimited" or "disabled": a string on which datetime.timedelta raises,
\* and a negative integer, which datetime.timedelta takes
InvalidDocuments ==
    { << <<"_default", << <<"hourly", StrValue("0")>> >> >> >>,
      << <<"tank", << <<"daily", IntValue(-5)>> >> >> >> }

\* documents: sections of distinct names, in the order of the file
DocumentsOver(sections) ==
    {d \in UNION {[1..n -> SectionNameChoices \X sections] : n \in 0..MaxSections} :
        \A i, j \in 1..Len(d) : d[i][1] = d[j][1] => i = j}

InitParse ==
    /\ snapshots = <<>>
    /\ phase = "document"
    /\ document \in DocumentsOver(DocumentSections)
    /\ configuration = [error |-> FALSE, config |-> EmptyConfiguration]
    /\ EngineIdle
    /\ ApplyIdle
    /\ DestroyIdle
    /\ ConfigIdle
    /\ CliIdle

\* config = zfs.snapshot.ParseConfiguration(args.config)
CallParseConfiguration ==
    /\ phase = "document"
    /\ configuration' = ParseConfiguration(document)
    /\ phase' = "loaded"
    /\ UNCHANGED <<snapshots, document, engineVars, applyVars, destroyVars,
                   configVars, cliVars>>

NextParse == CallParseConfiguration

SpecParse == InitParse /\ [][NextParse]_vars

---------------------------------------------------------------------------
(* Specification SpecCli: runs of the command line zfsu.py *)

\* config['filesystems'] of the backup sub-command
BackupFilesystems == <<"tank", "tank/vm">>

\* One line of the log: a storage command the driver or the backup
\* sub-command issued in run `run`, printed or executed, and whether the
\* executed command exited with zero.
LogLine(op, cmd, ok, run, base, target) ==
    [op |-> op, how |-> cmd.how, path |-> cmd.path, name |-> cmd.name,
     recursive |-> cmd.recursive, ok |-> ok, run |-> run,
     base |-> base, target |-> target]

\* A plausible slip: the filesystems of a pool are pruned right after the
\* pool's snapshot is taken, one loop in place of two.
RoundStagePerPool(poolIdx, fsIdx) ==
    IF fsIdx < poolIdx /\ fsIdx <= Len(Filesystems) THEN "filesystems"
    ELSE IF poolIdx <= Len(Pools) THEN "pools"
    ELSE IF fsIdx <= Len(Filesystems) THEN "filesystems"
    ELSE "done"

\* _snapshot: the loop over the pools runs to its end, then the loop over
\* the filesystems
RoundStage(poolIdx, fsIdx) ==
    IF poolIdx <= Len(Pools) THEN "pools"
    ELSE IF fsIdx <= Len(Filesystems) THEN "filesystems"
    ELSE "done"

\* _backup: the loop over config['filesystems']
BackupStage(fsIdx) ==
    IF fsIdx <= Len(BackupFilesystems) THEN "backup" ELSE "done"

\* the section _snapshot reads a pool's flags from
PoolSection(config, pool) ==
    IF pool \in DOMAIN config THEN config[pool] ELSE config["_default"]

\* A plausible slip: the oldest snapshot of the target is taken as the base.
LastTargetSnapshotOldest(targetSnapshots) ==
    Sorted(targetSnapshots, TimestampsOf(targetSnapshots))[1]

\* sorted(target_snapshots, key=lambda x: x.Timestamp)[-1]
LastTargetSnapshot(targetSnapshots) ==
    Sorted(targetSnapshots, TimestampsOf(targetSnapshots))[Len(targetSnapshots)]

\* _backup: the replication call for fs@name, incremental from the last
\* snapshot of the target when the target has one
ReplicationCall(fs, name, targetSnapshots, dryRun) ==
    [cmd |-> Command("zfsu.py", IF dryRun THEN "printed" ELSE "executed",
                     fs, name, FALSE, fs, name),
     base |-> IF targetSnapshots # <<>>
              THEN LastTargetSnapshot(targetSnapshots).Name ELSE <<>>,
     target |-> TargetPath(fs)]

\* whether `zfs send [-i fs@base] fs@name` has what it reads
CanSend(ds, fs, name, base) ==
    /\ GetSnapshot(ds, fs, name) # <<>>
    /\ base = <<>> \/ \E i \in 1..Len(ds[fs]) : ds[fs][i].Name = base

\* backups of the two days before the first run, on a target dataset
EarlierBackups(target) ==
    << Snap(target, BackupName(RunStart - SecondsPerDay), RunStart - SecondsPerDay),
       Snap(target, BackupName(RunStart - 2 * SecondsPerDay),
            RunStart - 2 * SecondsPerDay) >>

\* the namespaces a run of `snapshot` starts from
RoundNamespaces ==
    {[f \in {"tank", "tank/vm", "dozer"} |->
        CASE f = "tank" -> tank [] f = "tank/vm" -> vm [] f = "dozer" -> dozer] :
        tank \in {<<>>, Earlier("tank"), Earlier("tank") \o <<Manual("tank")>>},
        vm \in {<<>>, Earlier("tank/vm")},
        dozer \in {Earlier("dozer"), <<Manual("dozer")>>}}

\* the namespaces a run of `backup` starts from: the day's snapshot may
\* exist on a source, a target may hold earlier backups
BackupNamespaces ==
    {[f \in {"tank", "tank/vm", "backup/tank", "backup/tank_vm"} |->
        CASE f = "tank" -> tank [] f = "tank/vm" -> <<Manual("tank/vm")>>
          [] f = "backup/tank" -> target [] f = "backup/tank_vm" -> targetVm] :
        tank \in {Earlier("tank"),
                  <<Snap("tank", BackupName(RunStart), RunStart - SecondsPerHour)>>},
        target \in {<<>>, EarlierBackups("backup/tank"),
                    <<Manual("backup/tank")>>},
        targetVm \in {<<>>, SubSeq(EarlierBackups("backup/tank_vm"), 2, 2)}}

InitCli ==
    /\ snapshots = <<>>
    /\ phase = "start"
    /\ args \in [command : {"snapshot", "backup"}, dryRun : BOOLEAN, config : BOOLEAN]
    /\ args.command = "backup" => args.config
    /\ document \in IF args.command = "snapshot" /\ args.config
                     THEN DocumentsOver(RoundSections) \cup InvalidDocuments
                     ELSE {<<>>}
    /\ configuration = [error |-> FALSE, config |-> EmptyConfiguration]
    /\ datasets \in IF args.command = "snapshot" THEN RoundNamespaces
                     ELSE BackupNamespaces
    /\ datasetsAtStart = datasets
    /\ log = <<>>
    /\ engineInputs = <<>>
    /\ poolIndex = 1
    /\ fsIndex = 1
    /\ pending = <<>>
    /\ runs = 1
    /\ EngineIdle
    /\ ApplyIdle
    /\ DestroyIdle
    /\ ConfigIdle

\* _snapshot: the configuration is parsed, or the default one taken
LoadConfiguration ==
    /\ phase = "start"
    /\ args.command = "snapshot"
    /\ configuration' = IF args.config THEN ParseConfiguration(document)
                        ELSE [error |-> FALSE, config |-> GetDefaultConfiguration]
    /\ phase' = IF configuration'.error THEN "aborted"
                ELSE RoundStage(poolIndex, fsIndex)
    /\ UNCHANGED <<snapshots, document, engineVars, applyVars, destroyVars,
                   configVars, cliVars>>

\* _backup: the list of filesystems and the prefix are read
LoadBackupConfiguration ==
    /\ phase = "start"
    /\ args.command = "backup"
    /\ phase' = BackupStage(fsIndex)
    /\ UNCHANGED <<snapshots, parseVars, engineVars, applyVars, destroyVars,
                   configVars, cliVars>>

\* _snapshot, one pass of the loop over the pools: the pool is skipped, or
\* its snapshot is created.  check_call raises when the command exits with
\* non-zero, and nothing in _snapshot catches it.
ProcessPool ==
    /\ phase = "pools"
    /\ LET pool == Pools[poolIndex]
           sec == PoolSection(configuration.config, pool)
           name == SnapshotName(Clock(runs))
           cmd == CreateSnapshot(pool, name, sec.recursive, args.dryRun)[1]
       IN IF sec.ignore
          THEN /\ poolIndex' = poolIndex + 1
               /\ phase' = RoundStage(poolIndex + 1, fsIndex)
               /\ UNCHANGED <<datasets, log>>
          ELSE \E ok \in IF cmd.how = "printed" THEN {TRUE}
                         ELSE IF NameTaken(datasets, pool, name, sec.recursive)
                              THEN {FALSE} ELSE BOOLEAN :
                 /\ log' = Append(log, LogLine("snapshot", cmd, ok, runs, <<>>, ""))
                 /\ datasets' = IF ok /\ cmd.how = "executed"
                                 THEN Created(datasets, pool, name, sec.recursive,
                                              Clock(runs))
                                 ELSE datasets
                 /\ poolIndex' = IF ok THEN poolIndex + 1 ELSE poolIndex
                 /\ phase' = IF ok THEN RoundStage(poolIndex + 1, fsIndex)
                             ELSE "aborted"
    /\ UNCHANGED <<snapshots, parseVars, engineVars, applyVars, destroyVars,
                   configVars, args, datasetsAtStart, engineInputs, fsIndex,
                   pending, runs>>

\* _snapshot, one pass of the loop over the filesystems up to the loop over
\* the obsolete snapshots: the listing, the ignore test, the engine
ProcessFilesystem ==
    /\ phase = "filesystems"
    /\ LET f == Filesystems[fsIndex]
           listed == GetSnapshots(datasets, f, ReservedPrefix)
           cfg == configuration.config
           policy == IF f \in DOMAIN cfg THEN cfg[f].filters
                     ELSE cfg["_default"].filters
           obsolete == FilterSnapshots(listed, Clock(runs), policy).delete
       IN IF f \in DOMAIN cfg /\ cfg[f].ignore
          THEN /\ fsIndex' = fsIndex + 1
               /\ phase' = RoundStage(poolIndex, fsIndex + 1)
               /\ UNCHANGED <<engineInputs, pending>>
          ELSE /\ engineInputs' = Append(engineInputs, listed)
               /\ pending' = obsolete
               /\ fsIndex' = IF obsolete = <<>> THEN fsIndex + 1 ELSE fsIndex
               /\ phase' = IF obsolete = <<>>
                           THEN RoundStage(poolIndex, fsIndex + 1)
                           ELSE "destroying"
    /\ UNCHANGED <<snapshots, parseVars, engineVars, applyVars, destroyVars,
                   configVars, args, datasets, datasetsAtStart, log, poolIndex,
                   runs>>

\* _snapshot, one pass of the loop over obsoleteSnapshots: one destroy call.
\* check_call raises when the command exits with non-zero, and nothing in
\* _snapshot catches it.
DestroyObsolete ==
    /\ phase = "destroying"
    /\ LET s == Head(pending)
           cmd == DestroySnapshot(s.Path, s.Name, FALSE, args.dryRun)[1]
           last == Tail(pending) = <<>>
       IN \E ok \in IF cmd.how = "printed" THEN {TRUE} ELSE BOOLEAN :
            /\ log' = Append(log, LogLine("destroy", cmd, ok, runs, <<>>, ""))
            /\ datasets' = IF ok /\ cmd.how = "executed"
                            THEN Destroyed(datasets, s.Path, s.Name, FALSE)
                            ELSE datasets
            /\ pending' = IF ok THEN Tail(pending) ELSE pending
            /\ fsIndex' = IF ok /\ last THEN fsIndex + 1 ELSE fsIndex
            /\ phase' = IF ~ok THEN "aborted"
                        ELSE IF last THEN RoundStage(poolIndex, fsIndex + 1)
                        ELSE "destroying"
    /\ UNCHANGED <<snapshots, parseVars, engineVars, applyVars, destroyVars,
                   configVars, args, datasetsAtStart, engineInputs, poolIndex,
                   runs>>

\* _backup, one pass of the loop over the filesystems: the day's snapshot is
\* found or created, the replication call is built and issued.  The create
\* raises on failure; subprocess.call of the replication does not.
BackupFilesystem ==
    /\ phase = "backup"
    /\ LET fs == BackupFilesystems[fsIndex]
           name == BackupName(Clock(runs))
           found == GetSnapshot(datasets, fs, name)
           create == CreateSnapshot(fs, name, FALSE, args.dryRun)[1]
       IN \E created \in IF found # <<>> THEN {"reused"}
                         ELSE IF create.how = "printed" THEN {"printed"}
                         ELSE IF NameTaken(datasets, fs, name, FALSE) THEN {"failed"}
                         ELSE {"created", "failed"} :
            LET afterCreate == IF created = "created"
                               THEN Created(datasets, fs, name, FALSE, Clock(runs))
                               ELSE datasets
                createLines == IF created = "reused" THEN <<>>
                               ELSE <<LogLine("snapshot", create, created # "failed",
                                              runs, <<>>, "")>>
                targets == GetSnapshots(afterCreate, TargetPath(fs), BackupPrefix)
                call == ReplicationCall(fs, name, targets, args.dryRun)
            IN IF created = "failed"
               THEN /\ log' = log \o createLines
                    /\ phase' = "aborted"
                    /\ UNCHANGED <<datasets, fsIndex>>
               ELSE \E sent \in IF call.cmd.how = "printed" THEN {TRUE}
                                ELSE IF CanSend(afterCreate, fs, name, call.base)
                                     THEN BOOLEAN ELSE {FALSE} :
                      /\ log' = log \o createLines
                                    \o <<LogLine("send", call.cmd, sent, runs,
                                                 call.base, call.target)>>
                      /\ datasets' = IF sent /\ call.cmd.how = "executed"
                                      THEN Received(afterCreate, fs, name, call.target)
                                      ELSE afterCreate
                      /\ fsIndex' = fsIndex + 1
                      /\ phase' = BackupStage(fsIndex + 1)
    /\ UNCHANGED <<snapshots, parseVars, engineVars, applyVars, destroyVars,
                   configVars, args, datasetsAtStart, engineInputs, poolIndex,
                   pending, runs>>

\* the command line is run again, an hour later, with or without --dry-run
RunAgain ==
    /\ phase \in {"done", "aborted"}
    /\ runs < MaxRuns
    /\ \E dryRun \in BOOLEAN : args' = [args EXCEPT !.dryRun = dryRun]
    /\ runs' = runs + 1
    /\ datasetsAtStart' = datasets
    /\ poolIndex' = 1
    /\ fsIndex' = 1
    /\ pending' = <<>>
    /\ phase' = "start"
    /\ UNCHANGED <<snapshots, parseVars, engineVars, applyVars, destroyVars,
                   configVars, datasets, log, engineInputs>>

NextCli ==
    \/ LoadConfiguration
    \/ LoadBackupConfiguration
    \/ ProcessPool
    \/ ProcessFilesystem
    \/ DestroyObsolete
    \/ BackupFilesystem
    \/ RunAgain

SpecCli == InitCli /\ [][NextCli]_vars

---------------------------------------------------------------------------
(* Properties of the policy engine (specification Spec) *)

IsPartitionOf(keep, delete, input) ==
    /\ keep \cap Range(delete) = {}
    /\ keep \cup Range(delete) = Range(input)

\* C1: for every snapshot list, reference time and policy, the keep set and
\* the delete list returned by FilterSnapshots are disjoint and their union
\* is the set of the snapshots of the list.
PartitionCompleteness ==
    /\ phase # "input" => IsPartitionOf(toKeep, toDelete, snapshots)
    /\ phase = "again" => IsPartitionOf(keepAgain, deleteAgain, SetIter(toKeep))
    /\ phase = "reordered" => IsPartitionOf(keepAlt, deleteAlt, snapshots)

\* the snapshot is older than the cutoff of every entry of the policy
BeyondEveryCutoff(s) ==
    \A i \in 1..Len(filters) :
        /\ filters[i][2] # TimedeltaMaxDays
        /\ currentTime - s.Timestamp > filters[i][2] * 86400

\* C1 witness: a call that deleted a snapshot, kept one through a filter and
\* kept one that no filter was handed.
PartitionWitness ==
    /\ phase = "filtered"
    /\ filters # <<>>
    /\ toDelete # <<>>
    /\ \E s \in toKeep : BeyondEveryCutoff(s)
    /\ \E s \in toKeep : ~BeyondEveryCutoff(s)

\* C3: every snapshot whose age exceeds the cutoff of every policy entry is
\* in keep and not in delete.
RetainBeyondCoarsestCutoff ==
    phase # "input" =>
        \A s \in Range(snapshots) :
            BeyondEveryCutoff(s) => s \in toKeep /\ s \notin Range(toDelete)

\* C3 witness: under a non-empty policy that deleted something, a snapshot
\* older than every cutoff was kept.
RetainBeyondWitness ==
    /\ phase = "filtered"
    /\ filters # <<>>
    /\ toDelete # <<>>
    /\ \E s \in Range(snapshots) : BeyondEveryCutoff(s) /\ s \in toKeep

\* C4: FilterSnapshots run again on the keep set, with the same reference
\* time and policy, returns that keep set and an empty delete list.
Idempotence ==
    phase = "again" => keepAgain = toKeep /\ deleteAgain = <<>>

\* C4 witness: the second call followed a first call that deleted a snapshot
\* and kept two.
IdempotenceWitness ==
    /\ phase = "again"
    /\ toDelete # <<>>
    /\ Cardinality(toKeep) >= 2

\* C6: two policies with the same entries in different list order give the
\* same keep set and the same delete list.
PolicyOrderIndependence ==
    phase = "reordered" => keepAlt = toKeep /\ deleteAlt = toDelete

\* C6 witness: a two-entry policy with different cutoffs was run in both
\* orders on a list from which two snapshots were deleted.
PolicyOrderWitness ==
    /\ phase = "reordered"
    /\ Len(filters) = 2
    /\ filtersAlt = Reverse(filters)
    /\ filters[1][2] # filters[2][2]
    /\ Len(toDelete) = 2

IsSingleNewest(s) ==
    /\ s \in Range(snapshots)
    /\ \A t \in Range(snapshots) \ {s} : t.Timestamp < s.Timestamp

\* C8: under the built-in default policy the single snapshot with the
\* greatest timestamp of a non-empty list is in keep.
NewestKeptUnderDefault ==
    (phase # "input" /\ filters = DEFAULT_FILTERS) =>
        \A s \in Range(snapshots) : IsSingleNewest(s) => s \in toKeep

\* C8 witness: the default policy deleted a snapshot taken on the day of the
\* single newest one.
NewestKeptWitness ==
    /\ phase = "filtered"
    /\ filters = DEFAULT_FILTERS
    /\ \E s \in toKeep, t \in Range(toDelete) :
          /\ IsSingleNewest(s)
          /\ s.Timestamp \div 86400 = t.Timestamp \div 86400

\* C9 as stated: each element of the delete list has a timestamp strictly
\* greater than that of the element after it.
DeleteStrictlyDescending ==
    phase # "input" =>
        \A i \in 1..(Len(toDelete) - 1) :
            toDelete[i].Timestamp > toDelete[i + 1].Timestamp

\* C9 amended: each element of the delete list has a timestamp greater than
\* or equal to that of the element after it, and strictly greater when no two
\* snapshots of the input share a timestamp.
DeleteDescending ==
    phase # "input" =>
        \A i \in 1..(Len(toDelete) - 1) :
            /\ toDelete[i].Timestamp >= toDelete[i + 1].Timestamp
            /\ (\A j, k \in 1..Len(snapshots) :
                    snapshots[j].Timestamp = snapshots[k].Timestamp => j = k)
               => toDelete[i].Timestamp > toDelete[i + 1].Timestamp

\* C9 witness: a delete list of two snapshots with different timestamps.
DeleteDescendingWitness ==
    /\ phase = "filtered"
    /\ Len(toDelete) = 2
    /\ toDelete[1].Timestamp > toDelete[2].Timestamp

---------------------------------------------------------------------------
(* Properties of the filters (specification SpecApply) *)

\* C5 as stated: a bucketed filter returns the same set of snapshots for
\* every order of the input list.
BucketDeterminism ==
    (phase = "permuted" /\ applyFilter \in BucketVariants) =>
        Range(appliedAlt) = Range(applied)

YearOf(s) == CivilFromDays(s.Timestamp \div 86400)[1]

\* C10: Apply of a bucketed filter returns exactly one snapshot per non-empty
\* bucket, one with the greatest timestamp of the input snapshots of that
\* bucket; for Yearly, one per calendar year.
BucketRepresentative ==
    (phase # "input" /\ applyFilter \in BucketVariants) =>
        LET keyOf(s) == GetBucket(applyFilter, s.Timestamp)
            keys == {keyOf(s) : s \in Range(snapshots)}
        IN /\ \A k \in keys :
                 Cardinality({i \in 1..Len(applied) : keyOf(applied[i]) = k}) = 1
           /\ \A i \in 1..Len(applied) :
                 /\ applied[i] \in Range(snapshots)
                 /\ \A s \in Range(snapshots) :
                       keyOf(s) = keyOf(applied[i])
                       => s.Timestamp <= applied[i].Timestamp
           /\ applyFilter = "Yearly" =>
                 \A s \in Range(snapshots) :
                    Cardinality({i \in 1..Len(applied) :
                                    YearOf(applied[i]) = YearOf(s)}) = 1

\* C10 witness: Yearly applied to three snapshots of two calendar years, the
\* newest of the shared year not listed last.
BucketRepresentativeWitness ==
    /\ phase = "applied"
    /\ applyFilter = "Yearly"
    /\ Len(snapshots) = 3
    /\ Len(applied) = 2
    /\ \E i \in 1..2 : applied[i] \in {snapshots[1], snapshots[2]}
                       /\ YearOf(applied[i]) = YearOf(snapshots[3])

---------------------------------------------------------------------------
(* Properties of the destroy primitive (specification SpecDestroy) *)

\* C2 as stated: no destroy command is issued, executed or printed, for a
\* name that does not begin with the reserved prefix or for a path other than
\* that of the record being destroyed.
DestroyOnlyReserved ==
    \A i \in 1..Len(issued) :
        /\ StartsWith(issued[i].recordName, ReservedPrefix)
        /\ issued[i].recordPath = issued[i].path

---------------------------------------------------------------------------
(* Properties of the configuration loader (specification SpecConfig) *)

IsAscending(policy) ==
    \A i \in 1..(Len(policy) - 1) :
        granularity(policy[i][1]) <= granularity(policy[i + 1][1])

\* C7 as stated: whatever the order of the keys of a section, the loader
\* produces the same policy list, sorted ascending by granularity.
CanonicalPolicyFromLoader ==
    (phase = "permuted" /\ ~parsed.error) =>
        /\ parsedAlt.filters = parsed.filters
        /\ IsAscending(parsed.filters)

\* the filter keys of a section that give an entry, in document order
EntryKeys(s) ==
    SelectSeq([i \in 1..Len(s) |-> s[i][1]],
              LAMBDA k : k \in FilterKeys
                         /\ \E i \in 1..Len(s) : s[i][1] = k /\ ~IsDisabled(s[i][2]))

\* C7 amended: whatever the order of the keys of a section, the loader
\* produces the same entries, listed in the order of the section's keys; the
\* lists are equal once sorted by granularity, as FilterSnapshots sorts them.
PolicyFromLoaderUpToOrder ==
    phase = "permuted" =>
        /\ parsedAlt.error = parsed.error
        /\ Range(parsedAlt.filters) = Range(parsed.filters)
        /\ SortFilters(parsedAlt.filters) = SortFilters(parsed.filters)
        /\ IsAscending(SortFilters(parsed.filters))
        /\ ~parsed.error =>
              /\ [i \in 1..Len(parsed.filters) |-> parsed.filters[i][1]]
                    = [i \in 1..Len(EntryKeys(section)) |-> FilterOfKey(EntryKeys(section)[i])]
              /\ [i \in 1..Len(parsedAlt.filters) |-> parsedAlt.filters[i][1]]
                    = [i \in 1..Len(EntryKeys(sectionAlt)) |-> FilterOfKey(EntryKeys(sectionAlt)[i])]

\* C7 witness: a section of two filter keys, parsed in both key orders, gave
\* two entries in two different list orders.
PolicyFromLoaderWitness ==
    /\ phase = "permuted"
    /\ Len(parsed.filters) = 2
    /\ parsedAlt.filters = Reverse(parsed.filters)
    /\ parsedAlt.filters # parsed.filters

---------------------------------------------------------------------------
(* Properties of the command line (specification SpecCli) *)

\* the lines of the log that the current run issued
RunLines == SelectSeq(log, LAMBDA l : l.run = runs)

\* C11 as stated: when a create of the snapshot sub-command fails for a pool,
\* the round is not aborted: it goes on with the next pool and the
\* filesystems.
CreateFailureContinues ==
    (/\ args.command = "snapshot"
     /\ \E i \in 1..Len(RunLines) :
            RunLines[i].op = "snapshot" /\ ~RunLines[i].ok)
    => phase # "aborted"

\* C12 as stated: when a destroy fails for one filesystem, the round is not
\* aborted: it goes on with the next filesystem.
DestroyFailureContained ==
    (\E i \in 1..Len(RunLines) :
        RunLines[i].op = "destroy" /\ ~RunLines[i].ok)
    => phase # "aborted"

\* C13 as stated: a filesystem whose resolved section (its own if the
\* configuration has one, `_default` otherwise) sets ignore gets no create and
\* no destroy command during a round.
IgnoreIssuesNoCalls ==
    (args.command = "snapshot" /\ "_default" \in DOMAIN configuration.config) =>
        \A f \in Range(Filesystems) :
            PoolSection(configuration.config, f).ignore =>
                \A i \in 1..Len(RunLines) : RunLines[i].path # f

\* C14: in every run of the snapshot sub-command, no create command comes
\* after a destroy command: every create of the round is over before the
\* first destroy is issued.
CreatesBeforeDestroys ==
    \A i, j \in 1..Len(RunLines) :
        (RunLines[i].op = "destroy" /\ RunLines[j].op = "snapshot") => j < i

\* C14 witness: a finished round that created a snapshot for both pools and
\* then destroyed snapshots of two filesystems.
CreatesBeforeDestroysWitness ==
    /\ args.command = "snapshot"
    /\ phase = "done"
    /\ \E i, j \in 1..Len(RunLines) :
          /\ i # j
          /\ RunLines[i].op = "snapshot" /\ RunLines[j].op = "snapshot"
    /\ \E i, j \in 1..Len(RunLines) :
          /\ RunLines[i].op = "destroy" /\ RunLines[j].op = "destroy"
          /\ RunLines[i].path # RunLines[j].path

\* the section _snapshot reads a filesystem's policy from, and whether it
\* skips the filesystem
IsSkipped(f) ==
    f \in DOMAIN configuration.config /\ configuration.config[f].ignore
PolicyOf(f) ==
    IF f \in DOMAIN configuration.config THEN configuration.config[f].filters
    ELSE configuration.config["_default"].filters

\* <<op, path, name>> of the mutations a finished run of `snapshot` makes on
\* the namespace ds: a create per pool not ignored, then per filesystem not
\* skipped a destroy of each snapshot of the engine's delete list
RoundMutations(ds) ==
    LET creates == SelectSeq(Pools,
                       LAMBDA p : ~PoolSection(configuration.config, p).ignore)
        destroys[i \in 0..Len(Filesystems)] ==
            IF i = 0 THEN <<>>
            ELSE IF IsSkipped(Filesystems[i]) THEN destroys[i - 1]
            ELSE LET del == FilterSnapshots(
                                GetSnapshots(ds, Filesystems[i], ReservedPrefix),
                                Clock(runs), PolicyOf(Filesystems[i])).delete
                 IN destroys[i - 1]
                    \o [k \in 1..Len(del) |-> <<"destroy", del[k].Path, del[k].Name>>]
    IN [k \in 1..Len(creates) |->
            <<"snapshot", creates[k], SnapshotName(Clock(runs))>>]
       \o destroys[Len(Filesystems)]

\* <<op, path, name>> of the mutations a finished run of `backup` makes on the
\* namespace ds: per filesystem a create unless the day's snapshot exists,
\* and a replication
BackupMutations(ds) ==
    LET lines[i \in 0..Len(BackupFilesystems)] ==
            IF i = 0 THEN <<>>
            ELSE lines[i - 1]
                 \o (IF GetSnapshot(ds, BackupFilesystems[i], BackupName(Clock(runs))) = <<>>
                     THEN <<<<"snapshot", BackupFilesystems[i], BackupName(Clock(runs))>>>>
                     ELSE <<>>)
                 \o <<<<"send", BackupFilesystems[i], BackupName(Clock(runs))>>>>
    IN lines[Len(BackupFilesystems)]

\* C15: in a run with --dry-run, of either sub-command, no storage command is
\* executed and the namespace stays as it was when the run started; when the
\* run is over, the lines printed are, one for one and in order, the
\* mutations the run's calls stand for.
DryRunIsolation ==
    args.dryRun =>
        /\ \A i \in 1..Len(RunLines) : RunLines[i].how = "printed"
        /\ datasets = datasetsAtStart
        /\ phase = "done" =>
              [i \in 1..Len(RunLines) |->
                    <<RunLines[i].op, RunLines[i].path, RunLines[i].name>>]
                 = IF args.command = "snapshot" THEN RoundMutations(datasetsAtStart)
                   ELSE BackupMutations(datasetsAtStart)

\* C15 witness: a finished dry run of `snapshot` that printed a create and a
\* destroy, after an earlier run that executed its commands.
DryRunIsolationWitness ==
    /\ args.dryRun
    /\ args.command = "snapshot"
    /\ phase = "done"
    /\ runs = 2
    /\ \E i \in 1..Len(log) : log[i].run = 1 /\ log[i].how = "executed"
    /\ \E i, j \in 1..Len(RunLines) :
          /\ RunLines[i].op = "snapshot" /\ RunLines[i].how = "printed"
          /\ RunLines[j].op = "destroy" /\ RunLines[j].how = "printed"

\* C16: in any round, every snapshot handed to the policy engine and every
\* snapshot a destroy command names begins with the reserved prefix; a
\* snapshot of another name that a filesystem held when the run started is
\* still there.
PrefixInvisibility ==
    args.command = "snapshot" =>
        /\ \A i \in 1..Len(engineInputs) : \A k \in 1..Len(engineInputs[i]) :
              StartsWith(engineInputs[i][k].Name, ReservedPrefix)
        /\ \A i \in 1..Len(log) :
              log[i].op = "destroy" => StartsWith(log[i].name, ReservedPrefix)
        /\ \A f \in DOMAIN datasetsAtStart : \A k \in 1..Len(datasetsAtStart[f]) :
              ~StartsWith(datasetsAtStart[f][k].Name, ReservedPrefix) =>
                  datasetsAtStart[f][k] \in Range(datasets[f])

\* C16 witness: a finished round that ran the engine on, and executed a
\* destroy for, a filesystem that also holds a snapshot taken by hand.
PrefixInvisibilityWitness ==
    /\ args.command = "snapshot"
    /\ phase = "done"
    /\ Manual("tank") \in Range(datasetsAtStart["tank"])
    /\ \E i \in 1..Len(engineInputs) :
          engineInputs[i] # <<>> /\ engineInputs[i][1].Path = "tank"
    /\ \E i \in 1..Len(RunLines) :
          /\ RunLines[i].op = "destroy" /\ RunLines[i].path = "tank"
          /\ RunLines[i].how = "executed" /\ RunLines[i].ok

---------------------------------------------------------------------------
(* Properties of ParseConfiguration (specification SpecParse) *)

\* C17: the mapping ParseConfiguration returns always has the key `_default`;
\* when the document has no `_default` section the entry is the built-in
\* one (the six default bands, recursive, not ignored), and every section of
\* the document is in the mapping as it was parsed.
DefaultSectionInvariant ==
    (phase = "loaded" /\ ~configuration.error) =>
        /\ "_default" \in DOMAIN configuration.config
        /\ "_default" \notin SectionNames(document) =>
              /\ configuration.config["_default"]
                    = [filters |-> << <<"Passthrough", 2>>, <<"Hourly", 7>>,
                                      <<"Daily", 30>>, <<"Weekly", 90>>,
                                      <<"Monthly", 365>>,
                                      <<"Yearly", TimedeltaMaxDays>> >>,
                       recursive |-> TRUE, ignore |-> FALSE]
              /\ DOMAIN configuration.config
                    = SectionNames(document) \cup {"_default"}
              /\ \A n \in SectionNames(document) :
                    configuration.config[n] = SectionConfigs(document)[n]

\* C17 witness: a document of two sections, neither named `_default`, one of
\* them with a band of its own, was loaded.
DefaultSectionWitness ==
    /\ phase = "loaded"
    /\ ~configuration.error
    /\ Len(document) = 2
    /\ "_default" \notin SectionNames(document)
    /\ configuration.config["tank"].filters = << <<"Daily", 30>> >>
    /\ configuration.config["tank"].ignore

---------------------------------------------------------------------------
(* Value interpretation of the loader (specification SpecConfig) *)

\* the values for which the specification gives no entry: the literals "0"
\* and "disabled" (and the integer 0)
IsOmitted(value) ==
    \/ value.type = "str" /\ value.str \in {"0", "disabled"}
    \/ value.type = "int" /\ value.int = 0

\* the entry the specification gives for a recognised key and a value
SpecifiedEntry(key, value) ==
    <<FilterOfKey(key),
      IF value.type = "str" /\ value.str = "unlimited" THEN TimedeltaMaxDays
      ELSE value.int>>

\* C18 as stated: the loader raises no error, and the policy of a section has
\* exactly one entry per recognised key whose value is not "0" or
\* "disabled": n days for an integer n, unbounded for "unlimited"; unknown
\* keys give nothing.
ConfigValueInterpretation ==
    phase = "parsed" =>
        /\ ~parsed.error
        /\ Range(parsed.filters)
              = {SpecifiedEntry(section[i][1], section[i][2]) :
                    i \in {k \in 1..Len(section) :
                              /\ section[k][1] \in FilterKeys
                              /\ ~IsOmitted(section[k][2])}}
        /\ Len(parsed.filters) = Cardinality(Range(parsed.filters))

---------------------------------------------------------------------------
(* Properties of the backup sub-command (specification SpecCli) *)

\* the snapshots of the backup prefix that the target of fs held when the
\* run started (nothing but the replication of fs changes them)
TargetBackups(fs) ==
    {s \in Range(datasetsAtStart[TargetPath(fs)]) : StartsWith(s.Name, BackupPrefix)}

\* the replication lines the current run issued for filesystem fs
SendLines(fs) ==
    SelectSeq(RunLines, LAMBDA l : l.op = "send" /\ l.path = fs)

\* C19: in a run of `backup`, each filesystem the loop has passed got exactly
\* one replication of fs@N to its target: incremental from a snapshot of the
\* greatest timestamp among the target's snapshots of the backup prefix when
\* there is one, full when there is none.
ReplicationModeSelection ==
    (args.command = "backup" /\ phase \in {"backup", "done", "aborted"}) =>
        \A k \in 1..Len(BackupFilesystems) :
            LET fs == BackupFilesystems[k]
            IN IF k >= fsIndex THEN SendLines(fs) = <<>>
               ELSE /\ Len(SendLines(fs)) = 1
                    /\ SendLines(fs)[1].name = BackupName(Clock(runs))
                    /\ SendLines(fs)[1].target = TargetPath(fs)
                    /\ IF TargetBackups(fs) = {}
                       THEN SendLines(fs)[1].base = <<>>
                       ELSE \E s \in TargetBackups(fs) :
                               /\ SendLines(fs)[1].base = s.Name
                               /\ \A t \in TargetBackups(fs) :
                                     t.Timestamp <= s.Timestamp

\* C19 witness: a finished run replicated `tank` incrementally, from the
\* newer of the two backups its target held, and `tank/vm` in full.
ReplicationModeWitness ==
    /\ args.command = "backup"
    /\ phase = "done"
    /\ Cardinality(TargetBackups("tank")) = 2
    /\ Len(SendLines("tank")) = 1
    /\ SendLines("tank")[1].base = BackupName(RunStart - SecondsPerDay)
    /\ Len(SendLines("tank/vm")) = 1
    /\ SendLines("tank/vm")[1].base = <<>>

\* the create lines the current run issued for filesystem fs
CreateLines(fs) ==
    SelectSeq(RunLines, LAMBDA l : l.op = "snapshot" /\ l.path = fs)

\* C20: in a run of `backup`, a filesystem that already held the day's
\* snapshot N when the run started gets no create; any other filesystem the
\* loop has reached gets exactly one create, of fs@N and not recursive; and
\* over all the runs of one day at most one create of fs@N succeeds.
ReplicationSnapshotReuse ==
    (args.command = "backup" /\ phase \in {"backup", "done", "aborted"}) =>
        \A k \in 1..Len(BackupFilesystems) :
            LET fs == BackupFilesystems[k]
                N == BackupName(Clock(runs))
                reached == k < fsIndex \/ (k = fsIndex /\ phase = "aborted")
            IN /\ IF ~reached
                     \/ \E i \in 1..Len(datasetsAtStart[fs]) :
                            datasetsAtStart[fs][i].Name = N
                  THEN CreateLines(fs) = <<>>
                  ELSE /\ Len(CreateLines(fs)) = 1
                       /\ CreateLines(fs)[1].name = N
                       /\ ~CreateLines(fs)[1].recursive
               /\ Cardinality({i \in 1..Len(log) :
                                  /\ log[i].op = "snapshot" /\ log[i].path = fs
                                  /\ log[i].name = N
                                  /\ log[i].how = "executed" /\ log[i].ok}) <= 1

\* C20 witness: the first run created the day's snapshot of `tank`, and the
\* second run, an hour later and not a dry run, went past `tank` without a
\* create and replicated it.
ReplicationSnapshotReuseWitness ==
    /\ args.command = "backup"
    /\ runs = 2
    /\ ~args.dryRun
    /\ phase = "done"
    /\ \E i \in 1..Len(log) :
          /\ log[i].run = 1 /\ log[i].op = "snapshot" /\ log[i].path = "tank"
          /\ log[i].how = "executed" /\ log[i].ok
    /\ CreateLines("tank") = <<>>
    /\ Len(SendLines("tank")) = 1

---------------------------------------------------------------------------
(* Bands of the policy engine (specification Spec) *)

\* the age of s at currentTime is at most `cutoff` days
AgeWithin(s, cutoff) ==
    \/ cutoff = TimedeltaMaxDays
    \/ currentTime - s.Timestamp <= cutoff * SecondsPerDay

\* the first entry of `order` whose cutoff covers the age of s; 0 if none
BandOf(s, order) ==
    IF \E i \in 1..Len(order) : AgeWithin(s, order[i][2])
    THEN CHOOSE i \in 1..Len(order) :
            /\ AgeWithin(s, order[i][2])
            /\ \A j \in 1..(i - 1) : ~AgeWithin(s, order[j][2])
    ELSE 0

---------------------------------------------------------------------------
(* The weekly and monthly scenario (specification SpecScenario) *)

\* the scenario's snapshots of March, oldest first
MarchSnapshots == SubSeq(ScenarioSnapshots, 10, 12)

\* C22 as stated: on the scenario's list keep has 5 snapshots, the three of
\* March being in the Weekly band (age <= 30 days) and one of February and
\* one of January being the Monthly band's representatives; the delete list
\* begins at 2000-02-15 and ends at 2000-01-01.
ScenarioMarchInWeeklyBand ==
    (phase = "filtered" /\ snapshots = ScenarioSnapshots) =>
        /\ Cardinality(toKeep) = 5
        /\ Range(MarchSnapshots) \subseteq Range(bands.handed[1])
        /\ \A s \in Range(MarchSnapshots) : AgeWithin(s, 30)
        /\ Range(Apply("Monthly", bands.handed[2]))
              = {ScenarioSnapshots[9], ScenarioSnapshots[5]}
        /\ toDelete[1] = ScenarioSnapshots[8]
        /\ toDelete[Len(toDelete)] = ScenarioSnapshots[1]

\* C22 amended: on the scenario's list keep has 5 snapshots: those of
\* 2000-03-15 and 2000-03-08, which are in the Weekly band, and those of
\* 2000-03-01 (30 days and 12 hours old, beyond the Weekly cutoff),
\* 2000-02-22 and 2000-01-29, the Monthly band's representatives of March,
\* February and January; the delete list begins at 2000-02-15 and ends at
\* 2000-01-01.
ScenarioWeeklyMonthly ==
    (phase = "filtered" /\ snapshots = ScenarioSnapshots) =>
        /\ Cardinality(toKeep) = 5
        /\ bands.order = ScenarioPolicy
        /\ bands.handed[1] = SubSeq(ScenarioSnapshots, 11, 12)
        /\ Range(Apply("Weekly", bands.handed[1]))
              = {ScenarioSnapshots[12], ScenarioSnapshots[11]}
        /\ ~AgeWithin(ScenarioSnapshots[10], 30)
        /\ bands.handed[2] = SubSeq(ScenarioSnapshots, 1, 10)
        /\ Range(Apply("Monthly", bands.handed[2]))
              = {ScenarioSnapshots[10], ScenarioSnapshots[9], ScenarioSnapshots[5]}
        /\ bands.rest = <<>>
        /\ toKeep = {ScenarioSnapshots[12], ScenarioSnapshots[11],
                     ScenarioSnapshots[10], ScenarioSnapshots[9],
                     ScenarioSnapshots[5]}
        /\ Len(toDelete) = 7
        /\ toDelete[1] = ScenarioSnapshots[8]
        /\ toDelete[Len(toDelete)] = ScenarioSnapshots[1]

\* C22 witness: the engine has run on the scenario's twelve snapshots.
ScenarioWitness ==
    /\ phase = "filtered"
    /\ snapshots = ScenarioSnapshots
    /\ currentTime = ScenarioNow
    /\ filters = ScenarioPolicy
    /\ Len(toDelete) = 7

---------------------------------------------------------------------------
(* Reconciliation after an interrupted round (specification SpecPartial) *)

---------------------------------------------------------------------------
(* The unlimited cutoff (specification Spec) *)

\* the snapshots handed to the entries before entry i of the sorted policy
HandedBefore(i) == UNION {Range(bands.handed[j]) : j \in 1..(i - 1)}

\* C24: when an entry of the policy has the unlimited cutoff, its filter is
\* handed every snapshot that no finer entry took, whatever its age; every
\* coarser entry is handed nothing, and nothing is left for the final
\* keep-the-rest step.
UnboundedAbsorbs ==
    phase # "input" =>
        \A u \in 1..Len(bands.order) :
            (/\ bands.order[u][2] = TimedeltaMaxDays
             /\ \A j \in 1..(u - 1) : bands.order[j][2] # TimedeltaMaxDays)
            => /\ Range(bands.handed[u]) = Range(snapshots) \ HandedBefore(u)
               /\ Len(bands.handed[u]) = Cardinality(Range(snapshots) \ HandedBefore(u))
               /\ \A i \in (u + 1)..Len(bands.order) : bands.handed[i] = <<>>
               /\ bands.rest = <<>>

\* C24 witness: an unlimited entry followed by a coarser entry of 13 days was
\* handed a snapshot older than 13 days and one that the coarser entry
\* covers as well; the coarser entry was handed nothing.
UnboundedAbsorbsWitness ==
    /\ phase = "filtered"
    /\ Len(bands.order) = 2
    /\ bands.order[1][2] = TimedeltaMaxDays
    /\ bands.order[2][2] = 13
    /\ \E s \in Range(bands.handed[1]) : currentTime - s.Timestamp > 13 * SecondsPerDay
    /\ \E s \in Range(bands.handed[1]) : currentTime - s.Timestamp <= 13 * SecondsPerDay
    /\ bands.handed[2] = <<>>
    /\ bands.rest = <<>>

---------------------------------------------------------------------------
(* Configuration errors and the round (specification SpecCli) *)

\* a value the configuration format admits for a band
IsAdmissibleValue(value) ==
    \/ value.type = "int" /\ value.int >= 0
    \/ value.type = "str" /\ value.str \in {"unlimited", "disabled"}

\* a recognised key of the document holds a value that is not admissible
HasInvalidValue(doc) ==
    \E i \in 1..Len(doc) : \E k \in 1..Len(doc[i][2]) :
        /\ doc[i][2][k][1] \in FilterKeys
        /\ ~IsAdmissibleValue(doc[i][2][k][2])

\* C25 as stated: when a recognised key of the configuration given to the
\* snapshot sub-command holds a value that is not a non-negative integer,
\* "unlimited" or "disabled", the run ends with an error before any create
\* or destroy call is issued.
ConfigErrorPrecedesMutation ==
    (/\ args.command = "snapshot"
     /\ args.config
     /\ HasInvalidValue(document))
    => /\ phase # "done"
       /\ log = <<>>

---------------------------------------------------------------------------
(* Retention and the newest snapshot (specification SpecCli) *)

\* the snapshots of list l that no snapshot of l is newer than
NewestOf(l) ==
    {s \in Range(l) : \A t \in Range(l) : t.Timestamp <= s.Timestamp}

\* the reserved-prefix snapshots a filesystem holds in namespace ds
Held(ds, f) == Range(GetSnapshots(ds, f, ReservedPrefix))

\* C26: FilterSnapshots keeps a snapshot that none of the list is newer than,
\* so while the obsolete snapshots of a filesystem are destroyed one of its
\* newest snapshots is not among them and stays; a filesystem that held a
\* reserved-prefix snapshot at the start of a round holds one at every point
\* of the round; and the snapshot a round created is there until the round
\* ends.
RetentionKeepsNewest ==
    args.command = "snapshot" =>
        /\ phase = "destroying" =>
              LET f == Filesystems[fsIndex]
                  listed == engineInputs[Len(engineInputs)]
              IN /\ listed # <<>>
                 /\ FilterSnapshots(listed, Clock(runs), PolicyOf(f)).keep
                        \cap NewestOf(listed) # {}
                 /\ \E s \in NewestOf(listed) :
                        s \notin Range(pending) /\ s \in Held(datasets, f)
        /\ \A f \in DOMAIN datasets :
              Held(datasetsAtStart, f) # {} => Held(datasets, f) # {}
        /\ \A i \in 1..Len(log) :
              (/\ log[i].run = runs
               /\ log[i].op = "snapshot"
               /\ log[i].how = "executed"
               /\ log[i].ok)
              => \A f \in Reach(log[i].path, log[i].recursive) \cap DOMAIN datasets :
                    \E s \in Held(datasets, f) : s.Name = log[i].name

\* C26 witness: a second round is done in which a pool's snapshot was created
\* and a snapshot of that pool, the one of the round before, was destroyed.
RetentionKeepsNewestWitness ==
    /\ args.command = "snapshot"
    /\ phase = "done"
    /\ runs = 2
    /\ \E i, j \in 1..Len(log) :
          /\ i < j
          /\ log[i].run = runs /\ log[j].run = runs
          /\ log[i].op = "snapshot" /\ log[i].how = "executed" /\ log[i].ok
          /\ log[j].op = "destroy" /\ log[j].how = "executed" /\ log[j].ok
          /\ log[j].path = log[i].path
          /\ log[j].name = SnapshotName(Clock(1))

---------------------------------------------------------------------------
(* The base of an incremental replication (specification SpecCli) *)

\* C27 as stated: in every incremental replication command of the backup
\* sub-command, over any sequence of runs, the base snapshot named after -i
\* is not the snapshot that is sent.
IncrementalBaseDiffers ==
    \A i \in 1..Len(log) :
        (log[i].op = "send" /\ log[i].base # <<>>) => log[i].base # log[i].name

---------------------------------------------------------------------------
(* Weekly and monthly bands together (specification Spec) *)

\* the policy has an entry of filter variant f
HasEntry(policy, f) == \E i \in 1..Len(policy) : policy[i][1] = f

\* the cutoff of the policy's entry of filter variant f
CutoffOf(policy, f) ==
    policy[CHOOSE i \in 1..Len(policy) : policy[i][1] = f][2]

\* C28 as stated: under a policy with Weekly and Monthly entries, every
\* calendar month that has a snapshot not yet older than the Monthly cutoff
\* has a snapshot that is kept; a snapshot that is the only one of its month
\* is not deleted because a newer snapshot of its ISO week lies in the next
\* month.
MonthlyRepresentativeSurvives ==
    (/\ phase # "input"
     /\ HasEntry(filters, "Weekly")
     /\ HasEntry(filters, "Monthly"))
    => \A s \in Range(snapshots) :
          AgeWithin(s, CutoffOf(filters, "Monthly"))
          => \E k \in toKeep :
                GetBucket("Monthly", k.Timestamp) = GetBucket("Monthly", s.Timestamp)

====
